---------------------------- MODULE Spec2Model ----------------------------
(***************************************************************************)
(* Model of the chunked downloader (src/src/config.rs, src/src/http.rs,    *)
(* src/src/main.rs).  One coordinating flow (run) probes the server,       *)
(* creates the scratch directory, spawns CONFIG.size block tasks, joins    *)
(* them in index order and merges the block files into the output file.    *)
(*                                                                         *)
(* Bytes are numbers 0..255.  The program never looks at a byte, so the    *)
(* resource of length L is taken to be <<0, 1, ..., L-1>> (mod 256): every *)
(* offset carries its own value, and any loss, duplication or reordering   *)
(* of bytes shows in the output.                                           *)
(***************************************************************************)
EXTENDS Integers, Sequences, FiniteSets, TLC

(* ------------------------------ bounds -------------------------------- *)
\* largest concurrency count (CONFIG.size) explored by Spec
MaxN == 2
\* largest resource length explored by Spec
MaxLen == 3
\* largest resource length / concurrency count explored by SpecPartition
MaxTotal == 100
MaxPartN == 3
\* SpecMerge: resources of up to MaxChunks * BUF_SIZE + MaxTail bytes
MaxChunks == 2
\* SpecFair: resources of up to MaxFairLen bytes
MaxFairLen == 2
MaxTail == 1

(* ------------------------- program constants -------------------------- *)
\* merge buffer size
BUF_SIZE == 1024
\* the largest value of a usize, which `0 - 1` wraps to in a build that does
\* not trap; 2^31 - 1 stands for 2^64 - 1 here: all that is used of it is that
\* it lies beyond every offset of the resource
UsizeMax == 2147483647

(* ------------------------------ helpers ------------------------------- *)
Min(a, b) == IF a < b THEN a ELSE b

\* the resource of a given length
Resource(len) == [k \in 1..len |-> (k - 1) % 256]

\* bytes [first, first+count) of a byte sequence (offsets from 0)
Slice(s, first, count) == SubSeq(s, first + 1, first + count)

\* an error page, and the content of a destination file that is not ours
ErrBody == <<255>>
Foreign == <<255, 255>>

NoFile == [exists |-> FALSE, data |-> <<>>]
NoTask == [st |-> "none", index |-> 0, start |-> 0, len |-> 0, fetches |-> 0,
           first |-> 0, last |-> 0, status |-> "none", resp |-> <<>>, pos |-> 0,
           err |-> "none"]
NoError == [stage |-> "none", kind |-> "none", block |-> 0]

VARIABLES
    size,            \* CONFIG.size, the concurrency count
    resource,        \* the bytes the server holds
    overflow_checks, \* whether the build traps on integer overflow
    destExisted,     \* whether the destination existed when the run started
    pc,              \* position of the coordinating flow (main/run)
    exited,          \* the process has ended
    error,           \* the error the run reported
    probeSent,       \* the HEAD request was issued
    content_length,  \* run's content_length
    block_size,      \* run's block_size
    first_attach,    \* run's first_attach
    handles,         \* number of tasks spawned so far (Len of run's handles)
    joined,          \* number of handles awaited successfully
    task,            \* block index -> state of the spawned task
    bar,             \* block index -> position of the block's progress bar
    blockFile,       \* block index -> file of the scratch directory
    scratch,         \* "absent", "foreign" (exists, not ours), "created", "removed"
    output,          \* the destination file
    merged,          \* number of block files merge_file has appended
    mergeBar,        \* position of the merge progress bar
    written,         \* per block file merged, the lengths of the buffers written
    headers,         \* the headers of the probe response, as run reads them
    outOfOrder,      \* some block finished before a lower-indexed one
    other            \* position of another invocation with the same destination

vars == <<size, resource, overflow_checks, destExisted, pc, exited, error,
          probeSent, content_length, block_size, first_attach, handles, joined,
          task, bar, blockFile, scratch, output, merged, mergeBar, written,
          headers, outOfOrder, other>>

\* what no step of this run changes
inputs == <<size, resource, overflow_checks, destExisted, other>>
runVars == <<headers, content_length, block_size, first_attach, handles, joined>>
taskVars == <<task, bar, blockFile, outOfOrder>>
mergeVars == <<output, merged, mergeBar, written>>

Blocks == 0..(size - 1)
NoHeaders == [cl |-> "none", ar |-> "none"]

Fail(stage, kind, block) ==
    /\ pc' = "failed"
    /\ error' = [stage |-> stage, kind |-> kind, block |-> block]

(* ------------------------------- Init --------------------------------- *)
\* the state of a run that has not read anything yet
Fresh ==
    /\ exited = FALSE
    /\ error = NoError
    /\ probeSent = FALSE
    /\ headers = NoHeaders
    /\ content_length = 0
    /\ block_size = 0
    /\ first_attach = 0
    /\ handles = 0
    /\ joined = 0
    /\ task = [i \in Blocks |-> NoTask]
    /\ bar = [i \in Blocks |-> 0]
    /\ blockFile = [i \in Blocks |-> NoFile]
    /\ merged = 0
    /\ mergeBar = 0
    /\ written = <<>>
    /\ outOfOrder = FALSE

Init ==
    /\ size \in 0..MaxN
    /\ resource \in {Resource(len) : len \in 0..MaxLen}
    /\ overflow_checks \in BOOLEAN
    /\ destExisted \in BOOLEAN
    /\ output = IF destExisted THEN [exists |-> TRUE, data |-> Foreign] ELSE NoFile
    /\ scratch \in {"absent", "foreign"}
    /\ pc = "start"
    /\ other = "none"
    /\ Fresh

(* ------------------------- the coordinating flow ---------------------- *)
\* Config::get, run by the first use of CONFIG (http.rs:145, through the
\* lazy_static of http.rs:20, whose unwrap panics on the error)
\* (a pre-flight that never finds the destination)
NoPreflight == FALSE

\* Path::new(&file_path).exists()
DestinationTaken == output.exists

ConfigGet ==
    /\ pc = "start"
    /\ IF DestinationTaken
         THEN Fail("config", "DestinationExists", 0)
         ELSE pc' = "probe" /\ UNCHANGED error
    /\ UNCHANGED <<inputs, exited, probeSent, runVars, taskVars, scratch, mergeVars>>

\* (any Accept-Ranges text taken for "bytes")
ReadHeadersAnyUnit(cl, ar) ==
    IF cl = "absent" THEN "MissingLength"
    ELSE IF cl = "invalid" THEN "HeaderParse"
    ELSE IF ar = "absent" THEN "RangeUnsupported"
    ELSE IF ar = "opaque" THEN "HeaderParse"
    ELSE "ok"

\* what run makes of the probe response's headers: "ok", or the kind of the
\* error it returns
ReadHeaders(cl, ar) ==
    IF cl = "absent" THEN "MissingLength"
    ELSE IF cl = "invalid" THEN "HeaderParse"
    ELSE IF ar = "absent" THEN "RangeUnsupported"
    ELSE IF ar = "opaque" THEN "HeaderParse"
    ELSE IF ar # "bytes" THEN "RangeUnsupported"
    ELSE "ok"

\* the HEAD request and the reading of its response
Probe ==
    /\ pc = "probe"
    /\ probeSent' = TRUE
    /\ \/ /\ Fail("probe", "Transport", 0)
          /\ UNCHANGED <<headers, content_length>>
       \/ \E cl \in {"absent", "invalid", "valid"},
             ar \in {"absent", "bytes", "other", "opaque"} :
            /\ headers' = [cl |-> cl, ar |-> ar]
            /\ content_length' = IF cl = "valid" THEN Len(resource) ELSE content_length
            /\ IF ReadHeaders(cl, ar) = "ok"
                 THEN pc' = "mkdir" /\ UNCHANGED error
                 ELSE Fail("probe", ReadHeaders(cl, ar), 0)
    /\ UNCHANGED <<inputs, exited, block_size, first_attach, handles, joined,
                   taskVars, scratch, mergeVars>>

\* (create_dir_all: an existing directory is taken as it is)
CreateDirAll == TRUE

\* create_dir makes the directory only where none exists
DirCreatable == scratch = "absent"

\* create_dir(&CONFIG.temp_file_dir)
CreateDir ==
    /\ pc = "mkdir"
    /\ \/ /\ DirCreatable
          /\ scratch' = IF scratch = "absent" THEN "created" ELSE scratch
          /\ pc' = "partition"
          /\ UNCHANGED error
       \/ /\ Fail("mkdir", "Io", 0)
          /\ UNCHANGED scratch
    /\ UNCHANGED <<inputs, exited, probeSent, runVars, taskVars, mergeVars>>

\* block_size and first_attach
Partition ==
    /\ pc = "partition"
    /\ IF size = 0
         THEN /\ Fail("partition", "Panic", 0)
              /\ UNCHANGED <<block_size, first_attach>>
         ELSE /\ block_size' = content_length \div size
              /\ first_attach' = content_length % size
              /\ pc' = "spawn"
              /\ UNCHANGED error
    /\ UNCHANGED <<inputs, exited, probeSent, headers, content_length, handles,
                   joined, taskVars, scratch, mergeVars>>

\* (the remainder left out of the later blocks' starts)
BlockStartNoRemainder(i) == i * block_size

\* the start and the length run hands to download_block for block i
BlockStart(i) == IF i = 0 THEN 0 ELSE i * block_size + first_attach
BlockLen(i) == IF i = 0 THEN block_size + first_attach ELSE block_size

\* (the later blocks named by the block before them)
BlockIndexOffByOne(i) == IF i = 0 THEN 0 ELSE i - 1

\* the block index run hands to download_block (index.0) for the i-th task,
\* which names the task's block file
BlockIndex(i) == i

\* one download_block call of run: the task is spawned, not awaited
Spawn ==
    /\ pc = "spawn"
    /\ handles < size
    /\ task' = [task EXCEPT ![handles] =
                  [NoTask EXCEPT !.st = "spawned",
                                 !.index = BlockIndex(handles),
                                 !.start = BlockStart(handles),
                                 !.len = BlockLen(handles)]]
    /\ handles' = handles + 1
    /\ pc' = IF handles + 1 = size THEN "join" ELSE "spawn"
    /\ UNCHANGED <<inputs, exited, error, probeSent, headers, content_length,
                   block_size, first_attach, joined, bar, blockFile, outOfOrder,
                   scratch, mergeVars>>

\* (a handle completes only when its task returned Ok)
TerminatedOkOnly(i) == task[i].st = "ok"

\* the handle of task i is complete: the task returned or panicked
Terminated(i) == task[i].st \in {"ok", "failed", "panicked"}

\* (`handle.await?`: the task's own result is dropped)
JoinedOkOuterOnly(j) == task[j].st # "panicked"

\* `handle.await??` goes on to the next handle: the task did not panic and
\* returned Ok
JoinedOk(j) == task[j].st = "ok"

\* (the run fails at whichever task has failed, not at the handle awaited)
JoinFirstFailure ==
    /\ pc = "join"
    /\ joined < size
    /\ \/ /\ Terminated(joined)
          /\ JoinedOk(joined)
          /\ joined' = joined + 1
          /\ pc' = IF joined + 1 = size THEN "merge_open" ELSE "join"
          /\ UNCHANGED error
       \/ \E i \in Blocks :
            /\ task[i].st \in {"failed", "panicked"}
            /\ Fail("join",
                    IF task[i].st = "panicked" THEN "JoinError" ELSE task[i].err,
                    i)
            /\ UNCHANGED joined
    /\ UNCHANGED <<inputs, exited, probeSent, headers, content_length, block_size,
                   first_attach, handles, taskVars, scratch, mergeVars>>

\* (only the first handle is awaited)
JoinOnlyFirst ==
    /\ pc = "join"
    /\ joined < size
    /\ Terminated(joined)
    /\ IF JoinedOk(joined)
         THEN /\ joined' = joined + 1
              /\ pc' = "merge_open"
              /\ UNCHANGED error
         ELSE /\ Fail("join",
                      IF task[joined].st = "panicked" THEN "JoinError"
                                                      ELSE task[joined].err,
                      joined)
              /\ UNCHANGED joined
    /\ UNCHANGED <<inputs, exited, probeSent, headers, content_length, block_size,
                   first_attach, handles, taskVars, scratch, mergeVars>>

\* one iteration of `for handle in handles { handle.await??; }`
Join ==
    /\ pc = "join"
    /\ joined < size
    /\ Terminated(joined)
    /\ IF JoinedOk(joined)
         THEN /\ joined' = joined + 1
              /\ pc' = IF joined + 1 = size THEN "merge_open" ELSE "join"
              /\ UNCHANGED error
         ELSE /\ Fail("join",
                      IF task[joined].st = "panicked" THEN "JoinError"
                                                      ELSE task[joined].err,
                      joined)
              /\ UNCHANGED joined
    /\ UNCHANGED <<inputs, exited, probeSent, headers, content_length, block_size,
                   first_attach, handles, taskVars, scratch, mergeVars>>

(* ------------------------------ the server ---------------------------- *)
\* whether Range: bytes=first-last designates bytes of the resource
Satisfiable(first, last) == first <= last /\ first < Len(resource)

\* the bytes Range: bytes=first-last designates
RangeBytes(first, last) ==
    Slice(resource, first, Min(last, Len(resource) - 1) - first + 1)

\* the responses a server may give to GET with Range: bytes=first-last: the
\* designated slice (206), the whole resource (200: the Range header is
\* ignored, as it must be when it is invalid), or a non-success status with
\* an error page or an empty body
ServerResponses(first, last) ==
    (IF Satisfiable(first, last)
       THEN {[status |-> "success", resp |-> RangeBytes(first, last)]}
       ELSE {})
    \cup {[status |-> "success", resp |-> resource]}
    \cup {[status |-> "error", resp |-> b] : b \in {<<>>, ErrBody}}

(* ---------------------------- a block task ---------------------------- *)
\* the last byte position of the Range header: start + block_size - 1 in
\* usize arithmetic, which wraps when the build does not trap
RangeLast(start, len) == IF start + len = 0 THEN UsizeMax ELSE start + len - 1

\* the task ends in failure
TaskFails(i, how, kind) ==
    task' = [task EXCEPT ![i].st = how, ![i].err = kind]

\* download_block up to the response: the request is built and sent
Fetch(i) ==
    /\ ~exited
    /\ task[i].st = "spawned"
    /\ IF task[i].start + task[i].len = 0 /\ overflow_checks
         THEN TaskFails(i, "panicked", "Panic")
         ELSE LET first == task[i].start
                  last == RangeLast(task[i].start, task[i].len)
              IN  \/ task' = [task EXCEPT ![i].st = "failed",
                                          ![i].err = "Transport",
                                          ![i].fetches = @ + 1,
                                          ![i].first = first,
                                          ![i].last = last]
                  \/ \E r \in ServerResponses(first, last) :
                       task' = [task EXCEPT ![i].st = "responded",
                                            ![i].fetches = @ + 1,
                                            ![i].first = first,
                                            ![i].last = last,
                                            ![i].status = r.status,
                                            ![i].resp = r.resp]
    /\ UNCHANGED <<inputs, pc, exited, error, probeSent, runVars, bar, blockFile,
                   outOfOrder, scratch, mergeVars>>

\* write_file: the block file is opened with create and append
OpenBlockFile(i) ==
    /\ ~exited
    /\ task[i].st = "responded"
    /\ \/ /\ scratch = "created"
          /\ blockFile' = [blockFile EXCEPT ![task[i].index].exists = TRUE]
          /\ task' = [task EXCEPT ![i].st = "streaming"]
       \/ /\ TaskFails(i, "failed", "Io")
          /\ UNCHANGED blockFile
    /\ UNCHANGED <<inputs, pc, exited, error, probeSent, runVars, bar, outOfOrder,
                   scratch, mergeVars>>

\* write_file: one turn of the loop with a chunk of c bytes, or an error, from
\* response.data()
Data(i) ==
    /\ ~exited
    /\ task[i].st = "streaming"
    /\ task[i].pos < Len(task[i].resp)
    /\ \/ /\ TaskFails(i, "failed", "Transport")
          /\ UNCHANGED <<bar, blockFile>>
       \/ \E c \in 1..(Len(task[i].resp) - task[i].pos) :
            LET bytes == Slice(task[i].resp, task[i].pos, c)
            IN  /\ bar' = [bar EXCEPT ![i] = @ + Len(bytes)]
                /\ \/ /\ blockFile' = [blockFile EXCEPT
                                         ![task[i].index].data = @ \o bytes]
                      /\ task' = [task EXCEPT ![i].pos = @ + c]
                   \/ /\ TaskFails(i, "failed", "Io")
                      /\ UNCHANGED blockFile
    /\ UNCHANGED <<inputs, pc, exited, error, probeSent, runVars, outOfOrder,
                   scratch, mergeVars>>

\* write_file: response.data() is None; download_block finishes its bar and
\* returns Ok
Finish(i) ==
    /\ ~exited
    /\ task[i].st = "streaming"
    /\ task[i].pos = Len(task[i].resp)
    /\ task' = [task EXCEPT ![i].st = "ok"]
    /\ outOfOrder' = (outOfOrder \/ \E j \in 0..(i - 1) : task[j].st # "ok")
    /\ UNCHANGED <<inputs, pc, exited, error, probeSent, runVars, bar, blockFile,
                   scratch, mergeVars>>

\* a step of block i's task
TaskStep(i) == Fetch(i) \/ OpenBlockFile(i) \/ Data(i) \/ Finish(i)

(* ------------------------------ the merge ----------------------------- *)
\* (the full buffers first, the remainder last)
BufferSizesPartialLast(s) ==
    [j \in 1..(s \div BUF_SIZE) |-> BUF_SIZE] \o <<s % BUF_SIZE>>

\* the sizes of the buffers merge_file reads a block file of s bytes with, in
\* the order it reads them
BufferSizes(s) ==
    <<s % BUF_SIZE>> \o [j \in 1..(s \div BUF_SIZE) |-> BUF_SIZE]

RECURSIVE WriteBlocks(_, _, _, _)
\* what k write_block calls append to out, reading data from the cursor on
WriteBlocks(out, data, sizes, k) ==
    IF k = 0 \/ sizes = <<>>
      THEN out
      ELSE WriteBlocks(out \o SubSeq(data, 1, Head(sizes)),
                       SubSeq(data, Head(sizes) + 1, Len(data)),
                       Tail(sizes), k - 1)

RECURSIVE SumFirst(_, _)
SumFirst(sizes, k) ==
    IF k = 0 \/ sizes = <<>> THEN 0 ELSE Head(sizes) + SumFirst(Tail(sizes), k - 1)

\* merge_file up to the opening of the output file
MergeOpen ==
    /\ pc = "merge_open"
    /\ \/ /\ output' = [output EXCEPT !.exists = TRUE]
          /\ pc' = "merge"
          /\ UNCHANGED error
       \/ /\ Fail("merge", "Io", 0)
          /\ UNCHANGED output
    /\ UNCHANGED <<inputs, exited, probeSent, runVars, taskVars, scratch, merged,
                   mergeBar, written>>

\* (the block files taken last first)
MergeSourceReversed == size - 1 - merged

\* the index of the block file merge_file's loop is at
MergeSource == merged

\* one turn of merge_file's loop over the block files: k buffers are read and
\* written before the turn ends, with success when they are all
MergeBlock ==
    /\ pc = "merge"
    /\ merged < size
    /\ LET f == blockFile[MergeSource]
           sizes == BufferSizes(Len(f.data))
       IN  \/ /\ Fail("merge", "Io", merged)
              /\ UNCHANGED <<output, merged, mergeBar, written>>
           \/ /\ scratch = "created"
              /\ f.exists
              /\ \E k \in 0..Len(sizes) :
                   /\ output' = [output EXCEPT
                                   !.data = WriteBlocks(@, f.data, sizes, k)]
                   /\ written' = Append(written, SubSeq(sizes, 1, k))
                   /\ IF k = Len(sizes)
                        THEN /\ mergeBar' = mergeBar + SumFirst(sizes, k)
                             /\ merged' = merged + 1
                             /\ pc' = IF merged + 1 = size THEN "cleanup" ELSE "merge"
                             /\ UNCHANGED error
                        ELSE /\ \E counted \in {k, k + 1} :
                                  mergeBar' = mergeBar + SumFirst(sizes, counted)
                             /\ Fail("merge", "Io", merged)
                             /\ UNCHANGED merged
    /\ UNCHANGED <<inputs, exited, probeSent, runVars, taskVars, scratch>>

\* (the scratch directory is never removed)
MergeCleanupForgets ==
    /\ pc = "cleanup"
    /\ pc' = "done"
    /\ UNCHANGED <<inputs, exited, error, probeSent, runVars, taskVars, scratch,
                   mergeVars>>

\* the end of merge_file (remove_dir_all) and, on success, of run
MergeCleanup ==
    /\ pc = "cleanup"
    /\ \/ /\ scratch' = "removed"
          /\ blockFile' = [i \in Blocks |-> NoFile]
          /\ pc' = "done"
          /\ UNCHANGED error
       \/ /\ \E gone \in SUBSET Blocks :
               blockFile' = [i \in Blocks |-> IF i \in gone THEN NoFile ELSE blockFile[i]]
          /\ Fail("cleanup", "Io", 0)
          /\ UNCHANGED scratch
    /\ UNCHANGED <<inputs, exited, probeSent, runVars, task, bar, outOfOrder,
                   mergeVars>>

(* --------------------------- the process ends ------------------------- *)
\* main returns what run returned and the runtime shuts down: a task that has
\* not terminated is dropped where it is
Exit ==
    /\ pc \in {"done", "failed"}
    /\ ~exited
    /\ exited' = TRUE
    /\ task' = [i \in Blocks |->
                  IF task[i].st \in {"spawned", "responded", "streaming"}
                    THEN [task[i] EXCEPT !.st = "cancelled"]
                    ELSE task[i]]
    /\ UNCHANGED <<inputs, pc, error, probeSent, runVars, bar, blockFile,
                   outOfOrder, scratch, mergeVars>>

Next ==
    \/ ConfigGet
    \/ Probe
    \/ CreateDir
    \/ Partition
    \/ Spawn
    \/ Join
    \/ MergeOpen
    \/ MergeBlock
    \/ MergeCleanup
    \/ Exit
    \/ \E i \in Blocks : Fetch(i)
    \/ \E i \in Blocks : OpenBlockFile(i)
    \/ \E i \in Blocks : Data(i)
    \/ \E i \in Blocks : Finish(i)

Spec == Init /\ [][Next]_vars

(* --------------------------- fair scheduling -------------------------- *)
\* a step of run after the probe
RunStep ==
    \/ CreateDir
    \/ Partition
    \/ Spawn
    \/ Join
    \/ MergeOpen
    \/ MergeBlock
    \/ MergeCleanup

\* a run whose destination is free, under a runtime that keeps polling run
\* and every spawned task while they can proceed, every request and file
\* operation of a task returning
InitFair ==
    /\ size \in 0..MaxN
    /\ resource \in {Resource(len) : len \in 0..MaxFairLen}
    /\ overflow_checks \in BOOLEAN
    /\ destExisted = FALSE
    /\ output = NoFile
    /\ scratch \in {"absent", "foreign"}
    /\ pc = "start"
    /\ other = "none"
    /\ Fresh

SpecFair ==
    /\ InitFair
    /\ [][Next]_vars
    /\ WF_vars(RunStep)
    /\ \A i \in 0..(MaxN - 1) : WF_vars(i \in Blocks /\ TaskStep(i))

(* --------------------- the partition on its own ----------------------- *)
\* run at the point where it computes the ranges, for any length the probe
\* may have reported and any concurrency count >= 1
InitPartition ==
    /\ size \in 1..MaxPartN
    /\ resource \in {Resource(len) : len \in 0..MaxTotal}
    /\ overflow_checks \in BOOLEAN
    /\ destExisted = FALSE
    /\ output = NoFile
    /\ scratch = "created"
    /\ pc = "partition"
    /\ exited = FALSE
    /\ error = NoError
    /\ probeSent = TRUE
    /\ headers = [cl |-> "valid", ar |-> "bytes"]
    /\ content_length = Len(resource)
    /\ block_size = 0
    /\ first_attach = 0
    /\ handles = 0
    /\ joined = 0
    /\ task = [i \in Blocks |-> NoTask]
    /\ bar = [i \in Blocks |-> 0]
    /\ blockFile = [i \in Blocks |-> NoFile]
    /\ merged = 0
    /\ mergeBar = 0
    /\ written = <<>>
    /\ outOfOrder = FALSE
    /\ other = "none"

NextPartition ==
    \/ Partition
    \/ Spawn

SpecPartition == InitPartition /\ [][NextPartition]_vars

(* ----------------------- the merge on its own ------------------------ *)
\* the ways block i's task may have ended with Ok(())
DoneTask(i) ==
    LET first == BlockStart(i)
        last == RangeLast(BlockStart(i), BlockLen(i))
    IN  {[st |-> "ok", index |-> BlockIndex(i), start |-> BlockStart(i),
          len |-> BlockLen(i), fetches |-> 1, first |-> first, last |-> last,
          status |-> r.status, resp |-> r.resp, pos |-> Len(r.resp),
          err |-> "none"] : r \in ServerResponses(first, last)}

\* run at the call of merge_file: every handle has been awaited with success,
\* for resources of several buffers
InitMerge ==
    /\ size \in 1..MaxN
    /\ resource \in {Resource(c * BUF_SIZE + t) : c \in 0..MaxChunks, t \in 0..MaxTail}
    /\ overflow_checks = (Len(resource) > 0)
    /\ destExisted = FALSE
    /\ output = NoFile
    /\ scratch = "created"
    /\ pc = "merge_open"
    /\ exited = FALSE
    /\ error = NoError
    /\ probeSent = TRUE
    /\ headers = [cl |-> "valid", ar |-> "bytes"]
    /\ content_length = Len(resource)
    /\ block_size = content_length \div size
    /\ first_attach = content_length % size
    /\ handles = size
    /\ joined = size
    /\ task \in {t \in [Blocks -> UNION {DoneTask(i) : i \in Blocks}] :
                   \A i \in Blocks : t[i] \in DoneTask(i)}
    /\ bar = [i \in Blocks |-> task[i].pos]
    /\ blockFile = [i \in Blocks |-> [exists |-> TRUE, data |-> task[i].resp]]
    /\ merged = 0
    /\ mergeBar = 0
    /\ written = <<>>
    /\ outOfOrder = FALSE
    /\ other = "none"

NextMerge ==
    \/ MergeOpen
    \/ MergeBlock
    \/ MergeCleanup
    \/ Exit

SpecMerge == InitMerge /\ [][NextMerge]_vars

(* ------------------------- a second invocation ----------------------- *)
\* what this run's steps read and write, the destination apart
runState == <<size, resource, overflow_checks, destExisted, pc, exited, error,
              probeSent, runVars, taskVars, scratch, merged, mergeBar, written>>

\* Config::get of the other invocation: it goes on when the destination does
\* not exist
OtherPreflight ==
    /\ other = "start"
    /\ other' = IF output.exists THEN "refused" ELSE "passed"
    /\ UNCHANGED <<runState, output>>

\* merge_file of the other invocation opens the destination with create and
\* append
OtherMergeOpen ==
    /\ other = "passed"
    /\ output' = [output EXCEPT !.exists = TRUE]
    /\ other' = "merging"
    /\ UNCHANGED runState

\* merge_file of the other invocation appends its bytes
OtherAppend ==
    /\ other = "merging"
    /\ output' = [output EXCEPT !.data = @ \o Foreign]
    /\ other' = "done"
    /\ UNCHANGED runState

\* two invocations given the same destination, which does not exist
InitTwo ==
    /\ size \in 1..MaxN
    /\ resource \in {Resource(len) : len \in 1..MaxLen}
    /\ overflow_checks \in BOOLEAN
    /\ destExisted = FALSE
    /\ output = NoFile
    /\ scratch = "absent"
    /\ pc = "start"
    /\ other = "start"
    /\ Fresh

NextTwo ==
    \/ ConfigGet
    \/ Probe
    \/ CreateDir
    \/ Partition
    \/ Spawn
    \/ Join
    \/ MergeOpen
    \/ MergeBlock
    \/ MergeCleanup
    \/ Exit
    \/ \E i \in Blocks : Fetch(i)
    \/ \E i \in Blocks : OpenBlockFile(i)
    \/ \E i \in Blocks : Data(i)
    \/ \E i \in Blocks : Finish(i)
    \/ OtherPreflight
    \/ OtherMergeOpen
    \/ OtherAppend

SpecTwo == InitTwo /\ [][NextTwo]_vars

(* ------------------------------- claims ------------------------------- *)
\* the byte range [start, start + len) handed to block i's task
RangeEnd(i) == task[i].start + task[i].len

RECURSIVE SumLen(_)
SumLen(n) == IF n = 0 THEN 0 ELSE task[n - 1].len + SumLen(n - 1)

\* C2: the ranges run hands out are contiguous in index order, do not
\* overlap, start at 0 and (once all are handed out) their lengths sum to the
\* total length; for length 100 and 3 blocks they are [0,34), [34,67),
\* [67,100).
C2_PartitionExact ==
    /\ \A i \in 0..(handles - 1) :
         /\ task[i].len >= 0
         /\ i = 0 => task[i].start = 0
         /\ i > 0 => task[i].start = RangeEnd(i - 1)
         /\ \A j \in 0..(i - 1) : RangeEnd(j) <= task[i].start
    /\ pc = "join" =>
         /\ handles = size
         /\ SumLen(size) = content_length
         /\ RangeEnd(size - 1) = content_length
    /\ (pc = "join" /\ content_length = 100 /\ size = 3) =>
         /\ <<task[0].start, RangeEnd(0)>> = <<0, 34>>
         /\ <<task[1].start, RangeEnd(1)>> = <<34, 67>>
         /\ <<task[2].start, RangeEnd(2)>> = <<67, 100>>

C2_Witness ==
    /\ pc = "join"
    /\ content_length = 100
    /\ size = 3
    /\ task[2].start = 67

\* every block's fetch returned exactly the bytes of the block's range
ExactSlices ==
    \A i \in Blocks :
        /\ task[i].status # "none"
        /\ task[i].resp = Slice(resource, task[i].start, task[i].len)

\* C1: when the probe succeeded, every block fetch returned exactly its
\* range's bytes and the merge succeeded, the output file is the resource,
\* byte for byte, in whatever order the block downloads completed.
C1_RoundTrip ==
    (pc = "done" /\ ExactSlices) => (output.exists /\ output.data = resource)

C1_Witness ==
    /\ pc = "done"
    /\ ExactSlices
    /\ size = 2
    /\ Len(resource) = 3
    /\ outOfOrder
    /\ output.data = resource

\* C3 (as claimed): a block fetch answered with a non-success status makes
\* that block's download fail and the run fail; the merge never runs and no
\* output file exists.
C3_NonSuccessFails ==
    \A i \in Blocks :
        task[i].status = "error" =>
            /\ task[i].st # "ok"
            /\ pc \notin {"merge_open", "merge", "cleanup", "done"}
            /\ ~output.exists

\* C4 (as claimed): a run that ends in failure leaves no output file at a
\* destination that was free when it started.
C4_NoOutputOnFailure ==
    (pc = "failed" /\ ~destExisted) => ~output.exists

\* C5: when the destination exists at the start, the run fails at the
\* pre-flight check: the probe is never sent, no block task is ever spawned
\* and the scratch directory is never created.
C5_PreflightFirst ==
    destExisted =>
        /\ pc \in {"start", "failed"}
        /\ pc = "failed" => (error.stage = "config" /\ error.kind = "DestinationExists")
        /\ ~probeSent
        /\ scratch \in {"absent", "foreign"}
        /\ \A i \in Blocks : task[i].st = "none"

C5_Witness ==
    /\ destExisted
    /\ exited
    /\ pc = "failed"
    /\ scratch = "absent"

\* the probe failed before the scratch directory and any block fetch
NothingStarted ==
    /\ pc = "failed"
    /\ scratch \in {"absent", "foreign"}
    /\ \A i \in Blocks : task[i].st = "none"

\* C6 (as claimed): no Content-Length fails the run with MissingLength; a
\* Content-Length with an Accept-Ranges header that is absent or is anything
\* but "bytes" fails it with RangeUnsupported; in both cases nothing was
\* started.
C6_AsClaimed ==
    /\ headers.cl = "absent" =>
         (error.kind = "MissingLength" /\ NothingStarted)
    /\ (headers.cl \in {"invalid", "valid"} /\ headers.ar # "bytes") =>
         (error.kind = "RangeUnsupported" /\ NothingStarted)

\* C6 (amended): no Content-Length fails the run with MissingLength; a
\* Content-Length that is an unsigned integer with an Accept-Ranges header that
\* is absent or is a text other than "bytes" fails it with RangeUnsupported; a
\* Content-Length that is no unsigned integer, or (after a good
\* Content-Length) an Accept-Ranges value that is no text, fails it with a
\* header parsing error; in all these cases nothing was started.
C6_ProbeErrors ==
    /\ headers.cl = "absent" =>
         (error.kind = "MissingLength" /\ NothingStarted)
    /\ (headers.cl = "valid" /\ headers.ar \in {"absent", "other"}) =>
         (error.kind = "RangeUnsupported" /\ NothingStarted)
    /\ (headers.cl = "invalid" \/ (headers.cl = "valid" /\ headers.ar = "opaque")) =>
         (error.kind = "HeaderParse" /\ NothingStarted)

C6_Witness ==
    /\ headers = [cl |-> "valid", ar |-> "other"]
    /\ error.kind = "RangeUnsupported"
    /\ exited

\* the bytes a block task has written are in its block file
BlockFileKept(i) ==
    (task[i].st \in {"streaming", "ok"} \/ task[i].pos > 0) =>
        /\ blockFile[i].exists
        /\ blockFile[i].data = Slice(task[i].resp, 0, task[i].pos)

\* C7: the scratch directory is removed only once every block file has been
\* appended to the output; a run that fails in a block download or in the
\* merge's reads and writes leaves the directory and the block files written
\* so far; a run that succeeds has removed the directory.
C7_ScratchLifecycle ==
    /\ scratch = "removed" => (merged = size /\ pc = "done")
    /\ pc = "done" => scratch = "removed"
    /\ error.stage \in {"join", "merge"} =>
         /\ scratch = "created"
         /\ \A i \in Blocks : BlockFileKept(i)

C7_Witness ==
    /\ exited
    /\ error.stage = "merge"
    /\ merged = 1
    /\ scratch = "created"
    /\ blockFile[1].exists
    /\ blockFile[1].data # <<>>

ProbeOk == ReadHeaders(headers.cl, headers.ar) = "ok"
AllBlocksOk == \A i \in Blocks : task[i].st = "ok"
MergeOk == merged = size /\ size > 0 /\ scratch = "removed"

\* C8: the run reports success exactly when the probe succeeded, all the
\* block downloads succeeded and the merge succeeded to its last step, the
\* removal of the scratch directory; a run that has ended otherwise has
\* reported failure.
C8_NoPartialSuccess ==
    /\ pc = "done" <=> (ProbeOk /\ AllBlocksOk /\ MergeOk)
    /\ exited => (pc = "failed" <=> ~(ProbeOk /\ AllBlocksOk /\ MergeOk))

C8_Witness ==
    /\ exited
    /\ pc = "failed"
    /\ error.stage = "cleanup"
    /\ ProbeOk
    /\ AllBlocksOk
    /\ merged = size

\* the server answered block i's request with a success status, as a server
\* that honors range requests does: the designated bytes, or, for a Range
\* header that designates nothing, the whole resource (the header is ignored)
Honored(i) ==
    /\ task[i].status = "success"
    /\ task[i].resp = IF Satisfiable(task[i].first, task[i].last)
                        THEN RangeBytes(task[i].first, task[i].last)
                        ELSE resource

\* C9 (as claimed): with a server that honors range requests, a successful
\* run's output does not depend on n: it is what n = 1 gives, the resource.
C9_SameOutputForAnyN ==
    (pc = "done" /\ \A i \in Blocks : Honored(i)) => output.data = resource

Running(i) == task[i].st \in {"spawned", "responded", "streaming"}

\* the run failed in the join, at the handle of block error.block
FailedInJoin == pc = "failed" /\ error.stage = "join"

Merging == pc \in {"merge_open", "merge", "cleanup"}

\* C11: the merge starts only after all the block downloads have finished
\* successfully, so no block task is writing its file while the merge reads
\* block files or writes the output; and within a run only the merge changes
\* the output file.
C11_MergeAfterDownloads ==
    /\ [](Merging => (joined = size /\ \A i \in Blocks : task[i].st = "ok"))
    /\ [][output' # output => (pc \in {"merge_open", "merge"} /\ AllBlocksOk)]_vars

C11_Witness ==
    /\ pc = "merge"
    /\ size = 2
    /\ merged = 1
    /\ output.data # <<>>
    /\ \A i \in Blocks : task[i].st = "ok"

\* the tasks spawned so far
Spawned == 0..(handles - 1)

\* C12: each block task writes one file of the scratch directory, the one
\* named by its own block index; the indices handed out are pairwise distinct
\* and, once all are handed out, are exactly 0..N-1; so a block file has one
\* writer and holds only bytes its own task received.
C12_OneWriterPerFile ==
    /\ \A i \in Spawned : task[i].index = i
    /\ \A i, j \in Spawned : i # j => task[i].index # task[j].index
    /\ handles = size => {task[i].index : i \in Spawned} = Blocks
    /\ \A i \in Blocks :
         blockFile[i].exists =>
             blockFile[i].data = Slice(task[i].resp, 0, task[i].pos)

C12_Witness ==
    /\ size = 2
    /\ task[0].st = "streaming"
    /\ task[1].st = "streaming"
    /\ blockFile[0].data # <<>>
    /\ blockFile[1].data # <<>>
    /\ blockFile[0].data # blockFile[1].data

\* C13 (as claimed): every block's fetch is made, and carries the bounds
\* first = start and last = start + length - 1 with first <= last + 1 and
\* last - first + 1 = length, zero-length blocks included.
C13_RangeBounds ==
    \A i \in Blocks :
        /\ task[i].st # "panicked"
        /\ task[i].fetches > 0 =>
             /\ task[i].first = task[i].start
             /\ task[i].first - 1 <= task[i].last
             /\ task[i].last - task[i].first = task[i].len - 1

\* all the block downloads have completed successfully and the scratch
\* directory is as they left it
DownloadsComplete ==
    /\ size > 0
    /\ AllBlocksOk
    /\ pc \in {"join", "merge_open", "merge", "cleanup"}

\* C14 (as claimed): when all the block downloads have completed
\* successfully, block file i exists and holds exactly the bytes of range i,
\* whatever body the server sent; stated here for the runs in which every
\* request designated bytes of the resource and was answered with a success
\* status.
C14_BlockFileIsRange ==
    (/\ DownloadsComplete
     /\ \A i \in Blocks : task[i].status = "success"
     /\ \A i \in Blocks : Satisfiable(task[i].first, task[i].last)) =>
        \A i \in Blocks :
            /\ blockFile[i].exists
            /\ Len(blockFile[i].data) = task[i].len
            /\ blockFile[i].data = Slice(resource, task[i].start, task[i].len)

\* C15 (as claimed): the progress count of a block never exceeds the number
\* of bytes its task has appended to the block file, also after a failed
\* write, and equals it when the download has completed successfully.
C15_ProgressCountsWritten ==
    \A i \in Blocks :
        /\ bar[i] <= task[i].pos
        /\ task[i].st = "ok" => bar[i] = task[i].pos

\* C16: a block download is launched and a block file exists only after the
\* probe succeeded and this run created the scratch directory; a run whose
\* create_dir failed has failed with no task spawned, no fetch issued, no
\* block file and the directory as it found it.
Launched == \E i \in Blocks : task[i].st # "none" \/ task[i].fetches > 0 \/ blockFile[i].exists
C16_NothingBeforeScratch ==
    /\ (handles > 0 \/ Launched) =>
          /\ probeSent /\ ProbeOk
          /\ scratch \in {"created", "removed"}
          /\ error.stage \notin {"config", "probe", "mkdir"}
    /\ error.stage = "mkdir" =>
          /\ pc = "failed"
          /\ handles = 0 /\ ~Launched
          /\ scratch \in {"absent", "foreign"}
    /\ scratch = "foreign" => (handles = 0 /\ ~Launched /\ pc \notin {"partition", "spawn", "join"})

\* the scratch directory already existed: the run has failed in create_dir
\* after a successful probe, and exited
C16_Witness ==
    /\ error.stage = "mkdir" /\ scratch = "foreign" /\ exited
    /\ ProbeOk /\ size = 2 /\ Len(resource) = 2

RECURSIVE Concat(_)
\* the block files 0..n-1 end to end
Concat(n) == IF n = 0 THEN <<>> ELSE Concat(n - 1) \o blockFile[n - 1].data

RECURSIVE SumSeq(_)
SumSeq(q) == IF q = <<>> THEN 0 ELSE Head(q) + SumSeq(Tail(q))

\* the merge has appended the first `merged` block files and has not failed
MergedSoFar == pc \in {"merge", "cleanup"} /\ scratch = "created"

\* C17 (as claimed): a block file of s bytes is written as 1024-byte chunks
\* followed by one final partial chunk of s mod 1024 bytes.
C17_PartialChunkLast ==
    MergedSoFar =>
       \A j \in 1..merged :
          LET w == written[j]
              s == Len(blockFile[j - 1].data)
          IN  /\ \A m \in 1..(Len(w) - 1) : w[m] = BUF_SIZE
              /\ w[Len(w)] = s % BUF_SIZE

\* C17 (amended): after the merge of the first `merged` block files the
\* output holds exactly those files end to end in index order; a block file of
\* s bytes was written as one first buffer of s mod 1024 bytes (empty when s
\* is a multiple of 1024) followed by s div 1024 buffers of 1024 bytes, s
\* bytes in all; the merge progress counter is the sum of the sizes merged.
C17_MergeConcatenates ==
    MergedSoFar =>
       /\ Len(written) = merged
       /\ output.data = Concat(merged)
       /\ mergeBar = Len(Concat(merged))
       /\ \A j \in 1..merged :
            LET w == written[j]
                s == Len(blockFile[j - 1].data)
            IN  /\ Len(w) = 1 + (s \div BUF_SIZE)
                /\ w[1] = s % BUF_SIZE
                /\ \A m \in 2..Len(w) : w[m] = BUF_SIZE
                /\ SumSeq(w) = s

\* the two block files of a resource of 2049 bytes, of 1025 and 1024 bytes,
\* have been merged: 1 byte then 1024, and 0 bytes then 1024
C17_Witness ==
    /\ pc = "cleanup" /\ size = 2 /\ merged = 2
    /\ \A i \in Blocks : blockFile[i].data = Slice(resource, BlockStart(i), BlockLen(i))
    /\ written = << <<1, BUF_SIZE>>, <<0, BUF_SIZE>> >>
    /\ output.data = resource
    /\ mergeBar = 2 * BUF_SIZE + 1

\* the run has ended and reported success or failure
RunEnded == pc \in {"done", "failed"}

\* C18: every one of the N tasks is spawned before the first handle is
\* awaited; no task issues a second request; and under fair scheduling, once
\* the probe has returned, the run ends reporting success or failure.
C18_SpawnAllThenTerminate ==
    /\ [](pc = "join" => handles = size)
    /\ [][joined' # joined => handles = size]_vars
    /\ [](\A i \in Blocks : task[i].fetches <= 1)
    /\ [][\A i \in Blocks : task[i].fetches' > task[i].fetches => task[i].fetches = 0]_vars
    /\ (probeSent ~> RunEnded)

\* both tasks were spawned, each fetched once, the second failed after the
\* first had finished, and the run has reported the failure
C18_Witness ==
    /\ size = 2 /\ handles = 2 /\ joined = 1
    /\ task[0].st = "ok" /\ task[1].st = "failed"
    /\ \A i \in Blocks : task[i].fetches = 1
    /\ pc = "failed" /\ error.stage = "join" /\ error.block = 1
    /\ exited

RECURSIVE Appended(_)
\* the bytes this run's merge has read from the block files 0..n-1
Appended(n) == IF n = 0 THEN <<>> ELSE Appended(n - 1) \o task[n - 1].resp

\* C19 (as claimed): also with another invocation given the same destination,
\* the destination does not exist when this run's merge is about to open it,
\* and the output of a successful run holds only the bytes this run's merge
\* appended.
C19_DestinationFreshAtMerge ==
    /\ pc = "merge_open" => ~output.exists
    /\ pc = "done" => output.data = Appended(size)

=============================================================================
